---- MODULE Spec2Model ----
(***************************************************************************)
(* Climate parameters for frost-resistance design of non-rigid pavement:   *)
(* the city table (city.py) and ClimateConfig (climate.py).                *)
(*                                                                         *)
(* Representation of Python values                                         *)
(*   str            a sequence of Unicode code points ("Київ" is           *)
(*                  <<1050, 1080, 1111, 1074>>), so that str.lower() is    *)
(*                  computed character by character;                       *)
(*   Optional[T]    None is <<>>, a present value x is <<x>>;              *)
(*   float          fixed point, in units of 0.0001: Dec(95) is 0.95.      *)
(*                  Every literal of the source has two decimals and the   *)
(*                  products the source forms (x * 1.2) are exact in this  *)
(*                  unit; IEEE rounding of the last bit is not modelled;   *)
(*   an exception   [type |-> <class name>, msg |-> <str>];                *)
(*   a call         [raised |-> Optional[exception], value |-> Optional].  *)
(***************************************************************************)
EXTENDS Integers, Sequences, FiniteSets, TLC

None == <<>>

Some(x) == <<x>>

\* Python truthiness of an Optional[float]: None and 0 are falsy.
Truthy(o) == o # None /\ o[1] # 0

\* The fixed-point numeral of a literal with two decimals, given in hundredths.
Dec(hundredths) == hundredths * 100

\* float * float
Mul(a, b) == (a * b) \div Dec(100)

Raise(type, msg) == [raised |-> Some([type |-> type, msg |-> msg]), value |-> None]

Return(v) == [raised |-> None, value |-> Some(v)]

(***************************************************************************)
(* city.py                                                                 *)
(***************************************************************************)

\* @dataclass City
City(name, depth, a_0) ==
  [name |-> name, soil_freezing_depth__Z_H_max |-> depth, climate_index__a_0 |-> a_0]

\* CityTable.__init__: the dict self._cities, in insertion order.
_cities ==
  <<
    \* 'київ': City('Київ', 0.95, 0.65)
    [key |-> <<1082, 1080, 1111, 1074>>,
     city |-> City(<<1050, 1080, 1111, 1074>>, Dec(95), Dec(65))],
    \* 'харків': City('Харків', 1.00, 0.95)
    [key |-> <<1093, 1072, 1088, 1082, 1110, 1074>>,
     city |-> City(<<1061, 1072, 1088, 1082, 1110, 1074>>, Dec(100), Dec(95))],
    \* 'львів': City('Львів', 0.85, 0.70)
    [key |-> <<1083, 1100, 1074, 1110, 1074>>,
     city |-> City(<<1051, 1100, 1074, 1110, 1074>>, Dec(85), Dec(70))],
    \* 'одеса': City('Одеса', 0.65, 0.70)
    [key |-> <<1086, 1076, 1077, 1089, 1072>>,
     city |-> City(<<1054, 1076, 1077, 1089, 1072>>, Dec(65), Dec(70))],
    \* 'дніпро': City('Дніпро', 0.85, 0.85)
    [key |-> <<1076, 1085, 1110, 1087, 1088, 1086>>,
     city |-> City(<<1044, 1085, 1110, 1087, 1088, 1086>>, Dec(85), Dec(85))],
    \* 'донецьк': City('Донецьк', 0.90, 0.90)
    [key |-> <<1076, 1086, 1085, 1077, 1094, 1100, 1082>>,
     city |-> City(<<1044, 1086, 1085, 1077, 1094, 1100, 1082>>, Dec(90), Dec(90))],
    \* 'луцьк': City('Луцьк', 0.80, 0.60)
    [key |-> <<1083, 1091, 1094, 1100, 1082>>,
     city |-> City(<<1051, 1091, 1094, 1100, 1082>>, Dec(80), Dec(60))],
    \* 'ужгород': City('Ужгород', 0.65, 0.55)
    [key |-> <<1091, 1078, 1075, 1086, 1088, 1086, 1076>>,
     city |-> City(<<1059, 1078, 1075, 1086, 1088, 1086, 1076>>, Dec(65), Dec(55))],
    \* 'чернігів': City('Чернігів', 1.10, 0.90)
    [key |-> <<1095, 1077, 1088, 1085, 1110, 1075, 1110, 1074>>,
     city |-> City(<<1063, 1077, 1088, 1085, 1110, 1075, 1110, 1074>>, Dec(110), Dec(90))],
    \* 'суми': City('Суми', 1.05, 1.00)
    [key |-> <<1089, 1091, 1084, 1080>>,
     city |-> City(<<1057, 1091, 1084, 1080>>, Dec(105), Dec(100))],
    \* 'полтава': City('Полтава', 0.95, 0.90)
    [key |-> <<1087, 1086, 1083, 1090, 1072, 1074, 1072>>,
     city |-> City(<<1055, 1086, 1083, 1090, 1072, 1074, 1072>>, Dec(95), Dec(90))],
    \* 'черкаси': City('Черкаси', 0.90, 0.80)
    [key |-> <<1095, 1077, 1088, 1082, 1072, 1089, 1080>>,
     city |-> City(<<1063, 1077, 1088, 1082, 1072, 1089, 1080>>, Dec(90), Dec(80))],
    \* 'вінниця': City('Вінниця', 0.85, 0.50)
    [key |-> <<1074, 1110, 1085, 1085, 1080, 1094, 1103>>,
     city |-> City(<<1042, 1110, 1085, 1085, 1080, 1094, 1103>>, Dec(85), Dec(50))],
    \* 'житомир': City('Житомир', 0.90, 0.55)
    [key |-> <<1078, 1080, 1090, 1086, 1084, 1080, 1088>>,
     city |-> City(<<1046, 1080, 1090, 1086, 1084, 1080, 1088>>, Dec(90), Dec(55))],
    \* 'хмельницький': City('Хмельницький', 0.85, 0.50)
    [key |-> <<1093, 1084, 1077, 1083, 1100, 1085, 1080, 1094, 1100, 1082, 1080, 1081>>,
     city |-> City(<<1061, 1084, 1077, 1083, 1100, 1085, 1080, 1094, 1100, 1082, 1080, 1081>>, Dec(85), Dec(50))],
    \* 'тернопіль': City('Тернопіль', 0.85, 0.55)
    [key |-> <<1090, 1077, 1088, 1085, 1086, 1087, 1110, 1083, 1100>>,
     city |-> City(<<1058, 1077, 1088, 1085, 1086, 1087, 1110, 1083, 1100>>, Dec(85), Dec(55))],
    \* 'рівне': City('Рівне', 0.85, 0.60)
    [key |-> <<1088, 1110, 1074, 1085, 1077>>,
     city |-> City(<<1056, 1110, 1074, 1085, 1077>>, Dec(85), Dec(60))],
    \* 'івано-франківськ': City('Івано-Франківськ', 0.90, 0.70)
    [key |-> <<1110, 1074, 1072, 1085, 1086, 45, 1092, 1088, 1072, 1085, 1082, 1110, 1074, 1089, 1100, 1082>>,
     city |-> City(<<1030, 1074, 1072, 1085, 1086, 45, 1060, 1088, 1072, 1085, 1082, 1110, 1074, 1089, 1100, 1082>>, Dec(90), Dec(70))],
    \* 'чернівці': City('Чернівці', 0.75, 0.60)
    [key |-> <<1095, 1077, 1088, 1085, 1110, 1074, 1094, 1110>>,
     city |-> City(<<1063, 1077, 1088, 1085, 1110, 1074, 1094, 1110>>, Dec(75), Dec(60))],
    \* 'миколаїв': City('Миколаїв', 0.70, 0.75)
    [key |-> <<1084, 1080, 1082, 1086, 1083, 1072, 1111, 1074>>,
     city |-> City(<<1052, 1080, 1082, 1086, 1083, 1072, 1111, 1074>>, Dec(70), Dec(75))],
    \* 'херсон': City('Херсон', 0.70, 0.70)
    [key |-> <<1093, 1077, 1088, 1089, 1086, 1085>>,
     city |-> City(<<1061, 1077, 1088, 1089, 1086, 1085>>, Dec(70), Dec(70))],
    \* 'запоріжжя': City('Запоріжжя', 0.80, 0.85)
    [key |-> <<1079, 1072, 1087, 1086, 1088, 1110, 1078, 1078, 1103>>,
     city |-> City(<<1047, 1072, 1087, 1086, 1088, 1110, 1078, 1078, 1103>>, Dec(80), Dec(85))],
    \* 'кропивницький': City('Кропивницький', 0.85, 0.85)
    [key |-> <<1082, 1088, 1086, 1087, 1080, 1074, 1085, 1080, 1094, 1100, 1082, 1080, 1081>>,
     city |-> City(<<1050, 1088, 1086, 1087, 1080, 1074, 1085, 1080, 1094, 1100, 1082, 1080, 1081>>, Dec(85), Dec(85))],
    \* 'луганськ': City('Луганськ', 1.00, 0.95)
    [key |-> <<1083, 1091, 1075, 1072, 1085, 1089, 1100, 1082>>,
     city |-> City(<<1051, 1091, 1075, 1072, 1085, 1089, 1100, 1082>>, Dec(100), Dec(95))],
    \* 'сімферополь': City('Сімферополь', 0.40, 0.50)
    [key |-> <<1089, 1110, 1084, 1092, 1077, 1088, 1086, 1087, 1086, 1083, 1100>>,
     city |-> City(<<1057, 1110, 1084, 1092, 1077, 1088, 1086, 1087, 1086, 1083, 1100>>, Dec(40), Dec(50))]
  >>

\* str.lower() on one code point: Basic Latin, the Cyrillic block, and the
\* Ukrainian letter U+0490.
lower_char(c) ==
  IF c >= 65 /\ c <= 90 THEN c + 32
  ELSE IF c >= 1024 /\ c <= 1039 THEN c + 80
  ELSE IF c >= 1040 /\ c <= 1071 THEN c + 32
  ELSE IF c = 1168 THEN 1169
  ELSE c

\* str.lower()
lower(s) == [i \in 1..Len(s) |-> lower_char(s[i])]

\* city_key in self._cities
HasKey(city_key) == \E i \in 1..Len(_cities) : _cities[i].key = city_key

\* self._cities[city_key]
Item(city_key) == _cities[CHOOSE i \in 1..Len(_cities) : _cities[i].key = city_key].city

\* "Місто "
KeyErrorPrefix == <<1052, 1110, 1089, 1090, 1086, 32>>

\* " не знайдено в базі даних"
KeyErrorSuffix == <<32, 1085, 1077, 32, 1079, 1085, 1072, 1081, 1076, 1077, 1085, 1086, 32, 1074, 32, 1073, 1072, 1079, 1110, 32, 1076, 1072, 1085, 1080, 1093>>

\* "'NoneType' object has no attribute 'lower'"
NoneLowerMessage == <<39, 78, 111, 110, 101, 84, 121, 112, 101, 39, 32, 111, 98, 106, 101, 99, 116, 32, 104, 97, 115, 32, 110, 111, 32, 97, 116, 116, 114, 105, 98, 117, 116, 101, 32, 39, 108, 111, 119, 101, 114, 39>>

\* f"Місто {city_name} не знайдено в базі даних"
NotFoundMessage(name) == KeyErrorPrefix \o name \o KeyErrorSuffix

\* get_city without the lower(): the name is compared as given.
get_city_exact(city_name) ==
  IF city_name = None
  THEN Raise("AttributeError", NoneLowerMessage)
  ELSE LET city_key == city_name[1] IN
       IF ~HasKey(city_key)
       THEN Raise("KeyError", NotFoundMessage(city_name[1]))
       ELSE Return(Item(city_key))

\* get_city reporting the lower-cased key instead of the name as given.
get_city_key_in_message(city_name) ==
  IF city_name = None
  THEN Raise("AttributeError", NoneLowerMessage)
  ELSE LET city_key == lower(city_name[1]) IN
       IF ~HasKey(city_key)
       THEN Raise("KeyError", NotFoundMessage(city_key))
       ELSE Return(Item(city_key))

\* CityTable.get_city; city_name is an Optional[str], as ClimateConfig passes it.
get_city(city_name) ==
  IF city_name = None
  THEN Raise("AttributeError", NoneLowerMessage)
  ELSE LET city_key == lower(city_name[1]) IN
       IF ~HasKey(city_key)
       THEN Raise("KeyError", NotFoundMessage(city_name[1]))
       ELSE Return(Item(city_key))

\* CityTable.list_cities
list_cities == Return([i \in 1..Len(_cities) |-> _cities[i].city.name])

(***************************************************************************)
(* climate.py                                                              *)
(***************************************************************************)

\* enum ClimateZone (member names)
ClimateZone == {"ZONE_1", "ZONE_2", "ZONE_3", "ZONE_4"}

\* enum TerrainType (member names)
TerrainType == {"TYPE_1", "TYPE_2", "TYPE_3"}

\* "zone must be ClimateZone enum"
ZoneMessage == <<122, 111, 110, 101, 32, 109, 117, 115, 116, 32, 98, 101, 32, 67, 108, 105, 109, 97, 116, 101, 90, 111, 110, 101, 32, 101, 110, 117, 109>>

\* "terrain_type must be TerrainType enum"
TerrainMessage == <<116, 101, 114, 114, 97, 105, 110, 95, 116, 121, 112, 101, 32, 109, 117, 115, 116, 32, 98, 101, 32, 84, 101, 114, 114, 97, 105, 110, 84, 121, 112, 101, 32, 101, 110, 117, 109>>

\* The sand correction applied twice.
_get_soil_freezing_depth_by_city_twice(city, is_sandy_soil) ==
  LET base_depth == city.soil_freezing_depth__Z_H_max IN
  IF is_sandy_soil THEN Mul(Mul(base_depth, Dec(120)), Dec(120)) ELSE base_depth

\* ClimateConfig._get_soil_freezing_depth_by_city
_get_soil_freezing_depth_by_city(city, is_sandy_soil) ==
  LET base_depth == city.soil_freezing_depth__Z_H_max IN
  IF is_sandy_soil THEN Mul(base_depth, Dec(120)) ELSE base_depth

\* ClimateConfig._get_climate_index_by_city
_get_climate_index_by_city(city) == city.climate_index__a_0

\* The constructor looking the city up before it validates zone and terrain_type.
ClimateConfig__init__lookup_first(zone, terrain_type, city, soil_freezing_depth__Z_H_max, climate_index__a_0, is_sandy_soil) ==
  LET found == get_city(city) IN
  IF found.raised # None
  THEN [self |-> << >>, raised |-> found.raised, trace |-> <<"get_city">>]
  ELSE IF zone \notin ClimateZone
  THEN [self |-> << >>, raised |-> Raise("ValueError", ZoneMessage).raised,
        trace |-> <<"get_city", "check_zone">>]
  ELSE IF terrain_type \notin TerrainType
  THEN [self |-> << >>, raised |-> Raise("ValueError", TerrainMessage).raised,
        trace |-> <<"get_city", "check_zone", "check_terrain_type">>]
  ELSE
    LET city_data == found.value[1]
        depth == IF Truthy(soil_freezing_depth__Z_H_max)
                 THEN soil_freezing_depth__Z_H_max[1]
                 ELSE _get_soil_freezing_depth_by_city(city_data, is_sandy_soil)
        a_0 == IF Truthy(climate_index__a_0)
               THEN climate_index__a_0[1]
               ELSE _get_climate_index_by_city(city_data)
    IN
    [self |-> [zone |-> zone, terrain_type |-> terrain_type,
               city_data |-> city_data,
               soil_freezing_depth__Z_H_max |-> depth,
               climate_index__a_0 |-> a_0,
               is_sandy_soil |-> is_sandy_soil],
     raised |-> None,
     trace |-> <<"get_city", "check_zone", "check_terrain_type",
                 "soil_freezing_depth", "climate_index">>]

\* ClimateConfig.__init__.  self holds the attributes assigned so far (it stays
\* partly filled when the constructor raises), trace the statements executed.
ClimateConfig__init__(zone, terrain_type, city, soil_freezing_depth__Z_H_max, climate_index__a_0, is_sandy_soil) ==
  IF zone \notin ClimateZone
  THEN [self |-> << >>, raised |-> Raise("ValueError", ZoneMessage).raised,
        trace |-> <<"check_zone">>]
  ELSE IF terrain_type \notin TerrainType
  THEN [self |-> << >>, raised |-> Raise("ValueError", TerrainMessage).raised,
        trace |-> <<"check_zone", "check_terrain_type">>]
  ELSE
    LET self1 == [zone |-> zone, terrain_type |-> terrain_type]
        found == get_city(city)
    IN
    IF found.raised # None
    THEN [self |-> self1, raised |-> found.raised,
          trace |-> <<"check_zone", "check_terrain_type", "get_city">>]
    ELSE
      LET city_data == found.value[1]
          depth == IF Truthy(soil_freezing_depth__Z_H_max)
                   THEN soil_freezing_depth__Z_H_max[1]
                   ELSE _get_soil_freezing_depth_by_city(city_data, is_sandy_soil)
          a_0 == IF Truthy(climate_index__a_0)
                 THEN climate_index__a_0[1]
                 ELSE _get_climate_index_by_city(city_data)
      IN
      [self |-> [zone |-> zone, terrain_type |-> terrain_type,
                 city_data |-> city_data,
                 soil_freezing_depth__Z_H_max |-> depth,
                 climate_index__a_0 |-> a_0,
                 is_sandy_soil |-> is_sandy_soil],
       raised |-> None,
       trace |-> <<"check_zone", "check_terrain_type", "get_city",
                   "soil_freezing_depth", "climate_index">>]

\* The formula with x * 2 in place of x ** 2.
calculate_climate_index_doubled(frost_depth, road_thickness, freezing_duration) ==
  LET num == (frost_depth - road_thickness) * 2
      den == 2 * freezing_duration
  IN
  IF den = 0
  THEN Raise("ZeroDivisionError", << >>)
  ELSE Return([num |-> num, den |-> den])

\* ClimateConfig.calculate_climate_index: (Z - Z0)^2 / (2 * T).  The quotient
\* is kept as the fraction num/den: num in squared fixed-point units, den = 2T.
calculate_climate_index(frost_depth, road_thickness, freezing_duration) ==
  LET num == (frost_depth - road_thickness) * (frost_depth - road_thickness)
      den == 2 * freezing_duration
  IN
  IF den = 0
  THEN Raise("ZeroDivisionError", << >>)
  ELSE Return([num |-> num, den |-> den])

\* A Python value with its runtime type.
PyInt(n) == [type |-> "int", val |-> n]

PyDict(west, south) == [type |-> "dict", val |-> [west |-> west, south |-> south]]

\* ClimateConfig.calculation_days (property)
calculation_days(self) ==
  LET days_map ==
        [z \in ClimateZone |->
           CASE z = "ZONE_1" -> PyInt(145)
             [] z = "ZONE_2" -> PyInt(135)
             [] z = "ZONE_3" -> PyInt(130)
             [] z = "ZONE_4" -> PyDict(140, 120)]
  IN Return(days_map[self.zone])

\* ClimateConfig.design_temperature (property)
design_temperature(self) ==
  LET temp_map ==
        [z \in ClimateZone |->
           CASE z = "ZONE_1" -> PyInt(20)
             [] z = "ZONE_2" -> PyInt(25)
             [] z = "ZONE_3" -> PyInt(30)
             [] z = "ZONE_4" -> PyDict(25, 35)]
  IN Return(temp_map[self.zone])

(***************************************************************************)
(* State: the call made last and what it produced, and the configuration   *)
(* object the caller holds.                                                *)
(***************************************************************************)
VARIABLES
  op,      \* the operation called last ("none" before the call)
  args,    \* the arguments of the caller's request
  raised,  \* Optional: the exception it raised
  value,   \* Optional: the value it returned (not used by the constructor)
  trace,   \* the statements the constructor executed
  self,    \* the attributes the constructor assigned, also when it raised
  config   \* Optional: the ClimateConfig the caller got from the constructor

vars == <<op, args, raised, value, trace, self, config>>

(***************************************************************************)
(* Inputs                                                                  *)
(***************************************************************************)
MaxDepthSteps == 1

MaxIndexSteps == 1

MaxPad == 1

MaxFrostSteps == 4

MaxDuration == 3

\* "Атлантида"
Atlantis == <<1040, 1090, 1083, 1072, 1085, 1090, 1080, 1076, 1072>>

\* "Київ"
Kyiv == <<1050, 1080, 1111, 1074>>

\* "Сімферополь"
Simferopol == <<1057, 1110, 1084, 1092, 1077, 1088, 1086, 1087, 1086, 1083, 1100>>

DisplayNames == {_cities[i].city.name : i \in 1..Len(_cities)}

\* str.upper() on one code point, for building inputs.
ToUpperChar(c) ==
  IF c >= 97 /\ c <= 122 THEN c - 32
  ELSE IF c >= 1104 /\ c <= 1119 THEN c - 80
  ELSE IF c >= 1072 /\ c <= 1103 THEN c - 32
  ELSE IF c = 1169 THEN 1168
  ELSE c

ToUpper(s) == [i \in 1..Len(s) |-> ToUpperChar(s[i])]

SwapCase(s) == [i \in 1..Len(s) |-> IF ToUpperChar(s[i]) = s[i] THEN lower_char(s[i]) ELSE ToUpperChar(s[i])]

Pad(n) == [i \in 1..n |-> 32]

\* s with the case of its k-th letter changed.
ToggleAt(s, k) == [i \in 1..Len(s) |-> IF i = k THEN SwapCase(s)[i] ELSE s[i]]

\* The spellings of one name: as displayed, as keyed, upper case, case swapped,
\* and with the case of one letter changed.
CaseVariants(name) ==
  {name, lower(name), ToUpper(name), SwapCase(name)} \cup {ToggleAt(name, k) : k \in 1..Len(name)}

Padded(S) == {Pad(l) \o s \o Pad(r) : l \in 0..MaxPad, r \in 0..MaxPad, s \in S}

UnknownNames == {Atlantis, ToUpper(Atlantis), << >>, Kyiv \o <<50>>}

\* Names given to get_city directly.
LookupInputs == Padded(UNION {CaseVariants(n) : n \in DisplayNames} \cup UnknownNames)

\* Cities given to the constructor: none, each catalog city, some other spellings.
CityInputs ==
  {None} \cup {Some(n) : n \in DisplayNames \cup UnknownNames \cup Padded({Kyiv}) \cup CaseVariants(Simferopol)}

\* A value that is not a ClimateZone member (the member's raw value) joins the members.
ZoneInputs == ClimateZone \cup {"II"}

TerrainInputs == TerrainType \cup {"2"}

DepthInputs == {None} \cup {Some(Dec(95 * k)) : k \in 0..MaxDepthSteps}

IndexInputs == {None} \cup {Some(Dec(65 * k)) : k \in 0..MaxIndexSteps}

FrostInputs == {Dec(25 * k) : k \in 0..MaxFrostSteps}

DurationInputs == (0 - MaxDuration)..MaxDuration

(***************************************************************************)
(* Operations.  A caller holds one request (args) and makes the call; op    *)
(* is "none" until the call is made.  The calls share no mutable state, so  *)
(* one call per behaviour, followed by the reads of the configuration it    *)
(* produced, covers every call.                                             *)
(***************************************************************************)
Idle ==
  /\ op = "none"
  /\ raised = None
  /\ value = None
  /\ trace = << >>
  /\ self = << >>
  /\ config = None

\* A caller about to construct a ClimateConfig.
Init ==
  /\ Idle
  /\ args \in [zone : ZoneInputs, terrain_type : TerrainInputs, city : CityInputs,
               soil_freezing_depth__Z_H_max : DepthInputs,
               climate_index__a_0 : IndexInputs, is_sandy_soil : BOOLEAN]

\* A caller about to look a city up.
InitCatalog ==
  /\ Idle
  /\ args \in [city_name : LookupInputs]

\* A caller about to compute the climate index by the formula.
InitIndex ==
  /\ Idle
  /\ args \in [frost_depth : FrostInputs, road_thickness : FrostInputs,
               freezing_duration : DurationInputs]

\* config = ClimateConfig(zone, terrain_type, city, depth, a_0, is_sandy_soil)
Construct ==
  /\ op = "none"
  /\ LET r == ClimateConfig__init__(args.zone, args.terrain_type, args.city,
                                    args.soil_freezing_depth__Z_H_max,
                                    args.climate_index__a_0, args.is_sandy_soil)
     IN
     /\ op' = "ClimateConfig"
     /\ raised' = r.raised
     /\ value' = None
     /\ trace' = r.trace
     /\ self' = r.self
     /\ config' = IF r.raised = None THEN Some(r.self) ELSE None
     /\ UNCHANGED args

\* config.calculation_days
CalculationDays ==
  /\ config # None
  /\ LET r == calculation_days(config[1]) IN
     /\ op' = "calculation_days"
     /\ raised' = r.raised
     /\ value' = r.value
     /\ UNCHANGED <<args, trace, self, config>>

\* config.design_temperature
DesignTemperature ==
  /\ config # None
  /\ LET r == design_temperature(config[1]) IN
     /\ op' = "design_temperature"
     /\ raised' = r.raised
     /\ value' = r.value
     /\ UNCHANGED <<args, trace, self, config>>

\* CityTable().get_city(city_name)
GetCity ==
  /\ op = "none"
  /\ LET r == get_city(Some(args.city_name)) IN
     /\ op' = "get_city"
     /\ raised' = r.raised
     /\ value' = r.value
     /\ UNCHANGED <<args, trace, self, config>>

\* CityTable().list_cities()
ListCities ==
  /\ op = "none"
  /\ op' = "list_cities"
  /\ raised' = list_cities.raised
  /\ value' = list_cities.value
  /\ UNCHANGED <<args, trace, self, config>>

\* ClimateConfig.calculate_climate_index(frost_depth, road_thickness, freezing_duration)
CalculateClimateIndex ==
  /\ op = "none"
  /\ LET r == calculate_climate_index(args.frost_depth, args.road_thickness,
                                      args.freezing_duration)
     IN
     /\ op' = "calculate_climate_index"
     /\ raised' = r.raised
     /\ value' = r.value
     /\ UNCHANGED <<args, trace, self, config>>

\* The configuration: construction and its two properties.
Next == Construct \/ CalculationDays \/ DesignTemperature

Spec == Init /\ [][Next]_vars

\* The city table on its own.
NextCatalog == GetCity \/ ListCities

SpecCatalog == InitCatalog /\ [][NextCatalog]_vars

\* The formula for the climate index on its own.
NextIndex == CalculateClimateIndex

SpecIndex == InitIndex /\ [][NextIndex]_vars

(***************************************************************************)
(* Properties                                                              *)
(***************************************************************************)
\* The request names a valid zone and a valid terrain type.
ValidRequest == args.zone \in ClimateZone /\ args.terrain_type \in TerrainType

\* The constructor has been called (its result stays while properties are read).
Resolved == op \in {"ClimateConfig", "calculation_days", "design_temperature"}

IsWhitespace(c) == c \in {9, 10, 11, 12, 13, 32}

\* str.strip(): the trimming the specification describes.
Strip(s) ==
  LET keep == {i \in 1..Len(s) : ~IsWhitespace(s[i])} IN
  IF keep = {} THEN << >>
  ELSE SubSeq(s, CHOOSE i \in keep : \A j \in keep : i <= j,
                 CHOOSE i \in keep : \A j \in keep : i >= j)

\* s is name with the case of some letters changed.
CaseVariantOf(s, name) ==
  /\ Len(s) = Len(name)
  /\ \A k \in 1..Len(s) : ToUpperChar(s[k]) = ToUpperChar(name[k])

\* s occurs in msg.
Contains(msg, s) ==
  \E k \in 0..(Len(msg) - Len(s)) : SubSeq(msg, k + 1, k + Len(s)) = s

Range(f) == {f[i] : i \in DOMAIN f}

\* The request names a city of the table, in any letter case.
CityKnown == args.city # None /\ HasKey(lower(args.city[1]))

\* C1 (override precedence): whenever a depth override is supplied, 0 included,
\* resolution yields a configuration whose soil-freezing depth is the override
\* itself, sandy soil or not.  Stated for the requests that name a catalog
\* city; the requests without a city are those of C2.
C1_OverridePrecedence ==
  (Resolved /\ ValidRequest /\ CityKnown /\ args.soil_freezing_depth__Z_H_max # None)
  => /\ config # None
     /\ config[1].soil_freezing_depth__Z_H_max = args.soil_freezing_depth__Z_H_max[1]

\* C2 (city is optional): a request with valid zone and terrain, no city and
\* both overrides supplied succeeds and holds exactly the two overrides.
C2_CityOptional ==
  (Resolved /\ ValidRequest /\ args.city = None
     /\ args.soil_freezing_depth__Z_H_max # None /\ args.climate_index__a_0 # None)
  => /\ raised = None
     /\ config # None
     /\ config[1].soil_freezing_depth__Z_H_max = args.soil_freezing_depth__Z_H_max[1]
     /\ config[1].climate_index__a_0 = args.climate_index__a_0[1]

\* C3 (sand correction): for each of the 25 catalog cities, a valid request
\* without a depth override resolves to 1.20 times the catalog depth when the
\* soil is sandy and to the catalog depth itself when it is not; Київ sandy
\* gives 1.14 and Сімферополь not sandy gives 0.40.
C3_SandCorrection ==
  /\ Len(_cities) = 25
  /\ \A i \in 1..Len(_cities) :
       (Resolved /\ ValidRequest /\ args.city = Some(_cities[i].city.name)
          /\ args.soil_freezing_depth__Z_H_max = None)
       => /\ config # None
          /\ LET base == _cities[i].city.soil_freezing_depth__Z_H_max
                 depth == config[1].soil_freezing_depth__Z_H_max
             IN IF args.is_sandy_soil THEN 100 * depth = 120 * base ELSE depth = base
  /\ (Resolved /\ ValidRequest /\ args.soil_freezing_depth__Z_H_max = None)
     => /\ (args.city = Some(Kyiv) /\ args.is_sandy_soil)
           => config[1].soil_freezing_depth__Z_H_max = Dec(114)
        /\ (args.city = Some(Simferopol) /\ ~args.is_sandy_soil)
           => config[1].soil_freezing_depth__Z_H_max = Dec(40)

\* C3: Київ on sandy soil, no depth override, resolved to 1.14.
C3_Witness ==
  /\ op = "ClimateConfig" /\ config # None
  /\ args.city = Some(Kyiv) /\ args.is_sandy_soil
  /\ args.soil_freezing_depth__Z_H_max = None
  /\ config[1].soil_freezing_depth__Z_H_max = Dec(114)

\* C4 (climate index): a valid request resolves alpha_0 to the index override
\* whenever one is supplied, 0 included, and to the catalog alpha_0 of the
\* city otherwise.  Stated for the requests that name a catalog city; the
\* requests without a city are those of C2.
C4_ClimateIndexResolution ==
  (Resolved /\ ValidRequest /\ CityKnown)
  => /\ config # None
     /\ config[1].climate_index__a_0 =
          IF args.climate_index__a_0 # None
          THEN args.climate_index__a_0[1]
          ELSE Item(lower(args.city[1])).climate_index__a_0

\* C5 as stated (lookup normalisation): every variant of a catalog name made
\* by changing letter case and/or adding leading or trailing whitespace is
\* looked up to the city's record.
C5_LookupNormalization ==
  \A i \in 1..Len(_cities) :
    (op = "get_city" /\ CaseVariantOf(Strip(args.city_name), _cities[i].city.name))
    => raised = None /\ value = Some(_cities[i].city)

\* C5 as amended: every variant of a catalog name made by changing letter case
\* alone is looked up to the record of the display name; a variant with added
\* leading or trailing whitespace is not found (the name is lower-cased, not
\* trimmed).
C5_LookupCaseInsensitive ==
  \A i \in 1..Len(_cities) :
    /\ (op = "get_city" /\ CaseVariantOf(args.city_name, _cities[i].city.name))
       => /\ raised = None
          /\ value = Some(_cities[i].city)
          /\ value = get_city(Some(_cities[i].city.name)).value
    /\ (op = "get_city" /\ Strip(args.city_name) # args.city_name
          /\ CaseVariantOf(Strip(args.city_name), _cities[i].city.name))
       => value = None /\ raised # None /\ raised[1].type = "KeyError"

\* C5: КИЇВ looked up to the record of Київ.
C5_Witness ==
  /\ op = "get_city"
  /\ args.city_name = ToUpper(Kyiv) /\ args.city_name # Kyiv
  /\ value = Some(_cities[1].city)

\* C6 (unknown city): for a city name whose normalised form (lower-cased, and
\* also when trimmed first) is no key of the table, lookup raises KeyError with
\* the name as given in its message, and a valid resolve request with that name
\* raises that same error and yields no configuration.
C6_UnknownCity ==
  (op = "ClimateConfig" /\ ValidRequest /\ args.city # None
     /\ (~HasKey(lower(args.city[1])) \/ ~HasKey(lower(Strip(args.city[1])))))
  => /\ get_city(args.city).value = None
     /\ get_city(args.city).raised # None
     /\ get_city(args.city).raised[1].type = "KeyError"
     /\ Contains(get_city(args.city).raised[1].msg, args.city[1])
     /\ raised = get_city(args.city).raised
     /\ config = None

\* C6: resolving Атлантида ended in the KeyError that names it.
C6_Witness ==
  /\ op = "ClimateConfig" /\ ValidRequest
  /\ args.city = Some(Atlantis)
  /\ raised # None /\ raised[1].type = "KeyError"
  /\ Contains(raised[1].msg, Atlantis)

ZoneProperty == op \in {"calculation_days", "design_temperature"}

\* C7 (region validation): the properties take no region, so every read is one
\* without a region; for ZONE_4 such a read fails with ValueError and returns
\* no value.
C7_RegionValidation ==
  (ZoneProperty /\ config[1].zone = "ZONE_4")
  => /\ value = None
     /\ raised # None
     /\ raised[1].type = "ValueError"

\* C8 (zone constants): every read that succeeds returns one integer: 145/20
\* for ZONE_1, 135/25 for ZONE_2, 130/30 for ZONE_3, and for ZONE_4 140/25
\* (west) or 120/35 (south); never a mapping.
C8_ZoneConstants ==
  (ZoneProperty /\ raised = None)
  => /\ value[1].type = "int"
     /\ LET zone == config[1].zone
            days == op = "calculation_days"
        IN CASE zone = "ZONE_1" -> value[1].val = IF days THEN 145 ELSE 20
             [] zone = "ZONE_2" -> value[1].val = IF days THEN 135 ELSE 25
             [] zone = "ZONE_3" -> value[1].val = IF days THEN 130 ELSE 30
             [] zone = "ZONE_4" -> value[1].val \in (IF days THEN {140, 120} ELSE {25, 35})

\* value is the fraction (frost_depth - road_thickness)^2 / (2 * freezing_duration).
IsFormulaValue ==
  /\ value # None
  /\ value[1].den # 0
  /\ value[1].num * (2 * args.freezing_duration)
       = (args.frost_depth - args.road_thickness) * (args.frost_depth - args.road_thickness)
           * value[1].den

\* value is the value for frost_depth and road_thickness swapped.
IsSymmetric ==
  value = calculate_climate_index(args.road_thickness, args.frost_depth,
                                  args.freezing_duration).value

ConfigFields ==
  {"zone", "terrain_type", "city_data", "soil_freezing_depth__Z_H_max",
   "climate_index__a_0", "is_sandy_soil"}

\* C10 (validation first, all or nothing): a request with an invalid zone or
\* terrain type fails with ValueError before any lookup in the city table,
\* whatever the city; a call that raised yields no configuration, and a
\* configuration that is yielded has all its attributes.
C10_ValidationFirst ==
  /\ (op = "ClimateConfig" /\ ~ValidRequest)
     => /\ raised # None
        /\ raised[1].type = "ValueError"
        /\ "get_city" \notin Range(trace)
        /\ config = None
  /\ (op = "ClimateConfig" /\ raised # None) => config = None
  /\ config # None => DOMAIN config[1] = ConfigFields /\ raised = None

\* C10: an invalid zone with an unknown city ended in ValueError, no lookup made.
C10_Witness ==
  /\ op = "ClimateConfig"
  /\ args.zone \notin ClimateZone
  /\ args.city = Some(Atlantis)
  /\ raised # None /\ raised[1].type = "ValueError"
  /\ trace = <<"check_zone">>
  /\ config = None

====
